---- MODULE Spec2Model ----
(***************************************************************************)
(* RouteMixed.make (qlibrary/interconnects/mixed_path.py): route planning  *)
(* between a lead-in, N anchors and a lead-out, with a connection strategy *)
(* per segment and a single refinement pass over the meandered segments.   *)
(*                                                                         *)
(* Points are tokens <<kind, segment, k>>; lengths are integers and every  *)
(* quotient the code computes with "/" is kept as a rational <<num, den>>. *)
(***************************************************************************)
EXTENDS Integers, Sequences, FiniteSets, TLC

\* ---------------------------------------------------------------- bounds
MaxAnchors == 2
MaxArc == 2

\* ---------------------------------------------------------------- inputs
Tags == {"S", "PF", "M", "Z"}
TotalLengths == {20}
LeadLengths == {4}
FreeLengths == {0, 6}
MeasuredLengths == {10, 18}

\* Insertion orders of the anchors mapping: keys 0..n-1, ascending or descending.
AnchorOrders(n) == {[i \in 1..n |-> i - 1], [i \in 1..n |-> n - i]}

\* between_anchors: any tags on any keys 0..n+1 (n+1 is no segment of the route).
StrategyMaps(n) == UNION {[D -> Tags] : D \in SUBSET (0..(n + 1))}

VARIABLES
    pc,                          \* position inside make()
    anchors,                     \* p.anchors: its keys, in insertion order
    between_anchors,             \* p.between_anchors: key -> tag
    total_length,                \* p.total_length
    lead_length,                 \* head.length + tail.length
    free_length,                 \* free_manhattan_length_anchors()
    length_segment,              \* self._length_segment
    dictionary_intermediate_pts, \* the OrderedDict of per-segment points
    intermediate_pts,            \* self.intermediate_pts once concatenated
    meanders,                    \* local set `meanders`
    pos,                         \* loop position in anchors.items()
    calls,                       \* connect methods invoked so far
    route_length,                \* self.length as read at line 206
    individual_delta_length,     \* local individual_delta_length
    todo,                        \* meanders the refinement loop has not visited
    adjust_calls,                \* adjust_length invocations so far
    routed,                      \* the per-segment points as of line 199
    error,                       \* exception that ended make(), or "none"
    invocation,                  \* which make() call on this object is running
    points,                      \* argument of remove_co_linear_points
    once,                        \* remove_co_linear_points(points)
    twice,                       \* remove_co_linear_points(once)
    cl_pc,                       \* "input", "once" or "twice"
    root,                        \* TreeModelParamEntry.root
    data_dict,                   \* argument of init_load
    current_dict,                \* ParameterEntryWindow.current_dict
    op,                          \* the operation that ran last
    ret,                         \* what it returned, or the exception it raised
    emitted,                     \* the signals it emitted
    raised,                      \* the exception raised inside it, or "none"
    error_pop_up,                \* message boxes the last decorated method showed
    closed,                      \* the window has been closed
    components,                  \* argument of get_all_component_bounds
    geometry_hashable,           \* the installed shapely's geometries hash
    all_geoms,                   \* what get_all_geoms returned (line 158)
    bounds_ret,                  \* the bounds returned, or the exception raised
    gb_pc                        \* position inside get_all_component_bounds

makeVars == <<pc, anchors, between_anchors, total_length, lead_length, free_length,
          length_segment, dictionary_intermediate_pts, intermediate_pts,
          meanders, pos, calls, route_length, individual_delta_length, todo,
          adjust_calls, routed, error>>
collinearVars == <<points, once, twice, cl_pc>>
treeVars == <<root, data_dict, current_dict, op, ret, emitted, raised,
              error_pop_up, closed>>
boundsVars == <<components, geometry_hashable, all_geoms, bounds_ret, gb_pc>>
vars == <<makeVars, invocation, collinearVars, treeVars, boundsVars>>
\* what no step of a single make() call touches
outside == <<invocation, collinearVars, treeVars, boundsVars>>

\* ------------------------------------------------------------- rationals
NoneRat == <<0, 0>>
RatEq(a, b) == a[2] # 0 /\ b[2] # 0 /\ a[1] * b[2] = b[1] * a[2]
RatAdd(a, b) == <<a[1] * b[2] + b[1] * a[2], a[2] * b[2]>>

\* ---------------------------------------------------------------- points
Anchor(k) == <<"anchor", k, 0>>
ArcPt(seg, j) == <<"arc", seg, j>>
StartTip == <<"lead", 0, 0>>
IsAnchor(p) == p[1] = "anchor"

\* ------------------------------------------------ OrderedDict operations
DictKeys(d) == {d[i].key : i \in 1..Len(d)}
DictHas(d, k) == k \in DictKeys(d)
DictIndex(d, k) == CHOOSE i \in 1..Len(d) : d[i].key = k
DictGet(d, k) == d[DictIndex(d, k)].pts
DictSetMoveToEnd(d, k, v) ==
    Append(SelectSeq(d, LAMBDA e : e.key # k), [key |-> k, pts |-> v])
\* d[k] = v: an existing key keeps its position, a new key goes last.
DictSet(d, k, v) ==
    IF DictHas(d, k)
    THEN [d EXCEPT ![DictIndex(d, k)] = [key |-> k, pts |-> v]]
    ELSE Append(d, [key |-> k, pts |-> v])

RECURSIVE Flatten(_)
\* np.concatenate(list(d.values()), axis=0)
Flatten(d) == IF d = <<>> THEN <<>> ELSE Head(d).pts \o Flatten(Tail(d))

AnchorKeys == {anchors[i] : i \in 1..Len(anchors)}

\* ------------------------------------------------- select_connect_method
select_connect_method_default_meander(b, segment_num) ==
    LET type_connect == IF segment_num \in DOMAIN b THEN b[segment_num] ELSE "M"
    IN  IF type_connect = "S" THEN "connect_simple"
        ELSE IF type_connect = "PF" THEN "connect_astar_or_simple"
        ELSE IF type_connect = "M" THEN "connect_meandered"
        ELSE "None"
select_connect_method(b, segment_num) ==
    LET type_connect == IF segment_num \in DOMAIN b THEN b[segment_num] ELSE "S"
    IN  IF type_connect = "S" THEN "connect_simple"
        ELSE IF type_connect = "PF" THEN "connect_astar_or_simple"
        ELSE IF type_connect = "M" THEN "connect_meandered"
        ELSE "None"

\* between_anchors once select_connect_method has looked segment_num up:
\* the subscript is guarded by `in`, so a missing key is not created
LookupDefaulting(b, segment_num) ==
    IF segment_num \in DOMAIN b THEN b
    ELSE [k \in DOMAIN b \cup {segment_num} |->
             IF k = segment_num THEN "S" ELSE b[k]]
Lookup(b, segment_num) == b

\* ------------------------------------------------------ the length budget
\* sum(count_meanders_list) and len(count_meanders_list)
SumCountMeanders(b) == Cardinality({k \in DOMAIN b : b[k] = "M"})
LenCountMeanders(b) == Cardinality(DOMAIN b)
AnyCountMeanders(b) == SumCountMeanders(b) > 0

LengthSegmentSameDivisor(b, T, F, S) ==
    IF AnyCountMeanders(b)
    THEN RatAdd(<<T - F - S, SumCountMeanders(b)>>, <<S, SumCountMeanders(b)>>)
    ELSE NoneRat
LengthSegmentStale(b, T, F, S) ==
    IF AnyCountMeanders(b)
    THEN <<(T - F - S) * LenCountMeanders(b) + S * SumCountMeanders(b),
           SumCountMeanders(b) * LenCountMeanders(b)>>
    ELSE <<T - F, 1>>
\* lines 163-171
LengthSegment(b, T, F, S) ==
    IF AnyCountMeanders(b)
    THEN <<(T - F - S) * LenCountMeanders(b) + S * SumCountMeanders(b),
           SumCountMeanders(b) * LenCountMeanders(b)>>
    ELSE NoneRat

IndividualDeltaUndivided(T, L, ms) == <<T - L, 1>>
IndividualDeltaNoCurrent(T, L, ms) == <<T, Cardinality(ms)>>
\* total_delta_length / len(meanders)
IndividualDelta(T, L, ms) == <<T - L, Cardinality(ms)>>

\* ------------------------------------------------------- segment routing
\* What a connect method hands back: None, or an array of points.
ArcNone == [none |-> TRUE, pts |-> <<>>]
Arc(p) == [none |-> FALSE, pts |-> p]

get_tip(d) ==
    IF d = <<>> \/ d[Len(d)].pts = <<>> THEN StartTip
    ELSE d[Len(d)].pts[Len(d[Len(d)].pts)]

connect_simple(seg, tip) == {Arc(<<>>)}
connect_astar_or_simple(seg, tip) ==
    {ArcNone, Arc(<<ArcPt(seg, 1)>>)}
        \cup (IF IsAnchor(tip) THEN {Arc(<<tip, ArcPt(seg, 1)>>)} ELSE {})
connect_meandered(seg, tip) ==
    {Arc([j \in 1..n |-> ArcPt(seg, j)]) : n \in 1..MaxArc}

Connect(method, seg, tip) ==
    IF method = "connect_simple" THEN connect_simple(seg, tip)
    ELSE IF method = "connect_astar_or_simple" THEN connect_astar_or_simple(seg, tip)
    ELSE connect_meandered(seg, tip)

SegmentPtsDropCoord(arc, coord) ==
    IF arc.none \/ arc.pts = <<>> THEN <<coord>> ELSE arc.pts
\* lines 184-188: the anchor closes every segment that ends on it
SegmentPts(arc, coord) ==
    IF arc.none THEN <<coord>> ELSE arc.pts \o <<coord>>

\* trim_pts: the leading point of a segment that repeats the last point of
\* the segment before it is dropped.
trim_pts(d) ==
    [i \in 1..Len(d) |->
        IF /\ i > 1
           /\ d[i].pts # <<>>
           /\ d[i - 1].pts # <<>>
           /\ d[i].pts[1] = d[i - 1].pts[Len(d[i - 1].pts)]
        THEN [d[i] EXCEPT !.pts = Tail(@)]
        ELSE d[i]]

\* adjust_length: the meander's points, moved to take up delta_length
adjust_length(arc_pts) == [j \in 1..Len(arc_pts) |-> <<"adj", arc_pts[j][2], arc_pts[j][3]>>]

AllButLastKept(s) == s
\* arc_pts = dictionary_intermediate_pts[m][:-1]
AllButLast(s) == IF s = <<>> THEN <<>> ELSE SubSeq(s, 1, Len(s) - 1)

RefineSegmentShifted(d, m, pts) == DictSet(d, IF m > 0 THEN m - 1 ELSE m, pts)
\* dictionary_intermediate_pts[m] = ...
RefineSegment(d, m, pts) == DictSet(d, m, pts)

RefineRestKeep(rest, m) == rest
\* for m in meanders: every element is visited once
RefineRest(rest, m) == rest \ {m}

\* ------------------------------------------------------------------ Init
\* remove_co_linear_points is not being applied
CollinearIdle == points = <<>> /\ once = <<>> /\ twice = <<>> /\ cl_pc = "idle"

\* get_all_component_bounds is not being called
NoValue == [kind |-> "unset"]
BoundsIdle ==
    /\ components = NoValue
    /\ geometry_hashable = FALSE
    /\ all_geoms = NoValue
    /\ bounds_ret = NoValue
    /\ gb_pc = "idle"

\* no parameter-entry window exists
GuiIdle ==
    /\ root = <<>>
    /\ data_dict = <<>>
    /\ current_dict = <<>>
    /\ op = "idle"
    /\ ret = "None"
    /\ emitted = {}
    /\ raised = "none"
    /\ error_pop_up = 0
    /\ closed = FALSE

Init ==
    /\ pc = "start"
    /\ \E n \in 0..MaxAnchors :
          /\ anchors \in AnchorOrders(n)
          /\ between_anchors \in StrategyMaps(n)
    /\ total_length \in TotalLengths
    /\ lead_length \in LeadLengths
    /\ free_length \in FreeLengths
    /\ length_segment = NoneRat
    /\ dictionary_intermediate_pts = <<>>
    /\ intermediate_pts = <<>>
    /\ meanders = {}
    /\ pos = 1
    /\ calls = <<>>
    /\ route_length = 0
    /\ individual_delta_length = NoneRat
    /\ todo = {}
    /\ adjust_calls = <<>>
    /\ routed = <<>>
    /\ error = "none"
    /\ invocation = 1
    /\ CollinearIdle
    /\ GuiIdle
    /\ BoundsIdle

Raise(e) == pc' = "error" /\ error' = e

\* lines 150-176
Plan ==
    /\ pc = "start"
    /\ length_segment' =
          LengthSegment(between_anchors, total_length, lead_length, free_length)
    /\ dictionary_intermediate_pts' = <<>>
    /\ intermediate_pts' = <<>>
    /\ meanders' = {}
    /\ pos' = 1
    /\ pc' = "route"
    /\ UNCHANGED <<anchors, between_anchors, total_length, lead_length,
                   free_length, calls, route_length,
                   individual_delta_length, todo, adjust_calls, routed, error>>
    /\ UNCHANGED outside

\* lines 177-188, one iteration
RouteAnchor ==
    /\ pc = "route"
    /\ pos <= Len(anchors)
    /\ LET arc_num == anchors[pos]
           connect_method == select_connect_method(between_anchors, arc_num)
           tip == get_tip(dictionary_intermediate_pts)
       IN  IF connect_method = "None"
           THEN /\ Raise("TypeError")
                /\ UNCHANGED <<dictionary_intermediate_pts, meanders, pos, calls>>
           ELSE \E arc_pts \in Connect(connect_method, arc_num, tip) :
                /\ meanders' = IF connect_method = "connect_meandered"
                               THEN meanders \cup {arc_num} ELSE meanders
                /\ calls' = Append(calls, <<connect_method, arc_num>>)
                /\ dictionary_intermediate_pts' =
                      DictSet(dictionary_intermediate_pts, arc_num,
                              SegmentPts(arc_pts, Anchor(arc_num)))
                /\ pos' = pos + 1
                /\ UNCHANGED <<pc, error>>
    /\ between_anchors' = Lookup(between_anchors, anchors[pos])
    /\ UNCHANGED <<anchors, total_length, lead_length,
                   free_length, length_segment, intermediate_pts, route_length,
                   individual_delta_length, todo, adjust_calls, routed>>
    /\ UNCHANGED outside

\* lines 189-195
RouteLast ==
    /\ pc = "route"
    /\ pos = Len(anchors) + 1
    /\ LET seg == Len(anchors)
           connect_method == select_connect_method(between_anchors, seg)
           tip == get_tip(dictionary_intermediate_pts)
       IN  IF connect_method = "None"
           THEN /\ Raise("TypeError")
                /\ UNCHANGED <<dictionary_intermediate_pts, meanders, calls>>
           ELSE \E arc_pts \in Connect(connect_method, seg, tip) :
                /\ meanders' = IF connect_method = "connect_meandered"
                               THEN meanders \cup {seg} ELSE meanders
                /\ calls' = Append(calls, <<connect_method, seg>>)
                /\ dictionary_intermediate_pts' =
                      IF arc_pts.none THEN dictionary_intermediate_pts
                      ELSE DictSet(dictionary_intermediate_pts, seg, arc_pts.pts)
                /\ pc' = "concat"
                /\ UNCHANGED error
    /\ between_anchors' = Lookup(between_anchors, Len(anchors))
    /\ UNCHANGED <<anchors, total_length, lead_length,
                   free_length, length_segment, intermediate_pts, pos,
                   route_length, individual_delta_length, todo, adjust_calls,
                   routed>>
    /\ UNCHANGED outside

\* lines 197-204
Concatenate ==
    /\ pc = "concat"
    /\ LET trimmed == trim_pts(dictionary_intermediate_pts)
       IN  IF trimmed = <<>>
           THEN /\ Raise("ValueError")
                /\ UNCHANGED <<dictionary_intermediate_pts, intermediate_pts, routed>>
           ELSE /\ dictionary_intermediate_pts' = trimmed
                /\ routed' = trimmed
                /\ intermediate_pts' = Flatten(trimmed)
                /\ pc' = IF AnyCountMeanders(between_anchors)
                         THEN "balance" ELSE "final"
                /\ UNCHANGED error
    /\ UNCHANGED <<anchors, between_anchors, total_length, lead_length,
                   free_length, length_segment, meanders, pos, calls,
                   route_length, individual_delta_length, todo, adjust_calls>>
    /\ UNCHANGED outside

\* lines 206-207, len(meanders) > 0
Balance ==
    /\ pc = "balance"
    /\ meanders # {}
    /\ \E L \in MeasuredLengths :
          /\ route_length' = L
          /\ individual_delta_length' = IndividualDelta(total_length, L, meanders)
    /\ todo' = meanders
    /\ pc' = "refine"
    /\ UNCHANGED <<anchors, between_anchors, total_length, lead_length,
                   free_length, length_segment, dictionary_intermediate_pts,
                   intermediate_pts, meanders, pos, calls, adjust_calls,
                   routed, error>>
    /\ UNCHANGED outside

\* lines 206-207, len(meanders) = 0: the quotient is a ZeroDivisionError for
\* Python floats and a non-finite value for numpy floats.
BalanceNoMeander ==
    /\ pc = "balance"
    /\ meanders = {}
    /\ \E L \in MeasuredLengths, raises \in BOOLEAN :
          /\ route_length' = L
          /\ IF raises
             THEN /\ Raise("ZeroDivisionError")
                  /\ UNCHANGED individual_delta_length
             ELSE /\ individual_delta_length' = <<total_length - L, 0>>
                  /\ pc' = "refine"
                  /\ UNCHANGED error
    /\ todo' = {}
    /\ UNCHANGED <<anchors, between_anchors, total_length, lead_length,
                   free_length, length_segment, dictionary_intermediate_pts,
                   intermediate_pts, meanders, pos, calls, adjust_calls, routed>>
    /\ UNCHANGED outside

\* lines 208-222, one iteration (a set is iterated in no promised order)
RefineMeander ==
    /\ pc = "refine"
    /\ \E m \in todo :
          IF \/ ~DictHas(dictionary_intermediate_pts, m)
             \/ (m # 0 /\ (m - 1) \notin AnchorKeys)
             \/ (m # Len(anchors) /\ m \notin AnchorKeys)
          THEN /\ Raise("KeyError")
               /\ UNCHANGED <<dictionary_intermediate_pts, adjust_calls, todo>>
          ELSE LET arc_pts == AllButLast(DictGet(dictionary_intermediate_pts, m))
                   adjusted == adjust_length(arc_pts)
               IN  /\ adjust_calls' =
                         Append(adjust_calls,
                                [m |-> m, delta |-> individual_delta_length])
                   /\ IF m \in AnchorKeys
                      THEN /\ dictionary_intermediate_pts' =
                                 RefineSegment(dictionary_intermediate_pts, m,
                                               adjusted \o <<Anchor(m)>>)
                           /\ todo' = RefineRest(todo, m)
                           /\ UNCHANGED <<pc, error>>
                      ELSE /\ dictionary_intermediate_pts' =
                                 RefineSegment(dictionary_intermediate_pts, m,
                                               adjusted)
                           /\ Raise("KeyError")
                           /\ UNCHANGED todo
    /\ UNCHANGED <<anchors, between_anchors, total_length, lead_length,
                   free_length, length_segment, intermediate_pts, meanders,
                   pos, calls, route_length, individual_delta_length, routed>>
    /\ UNCHANGED outside

\* lines 223-228
Finish ==
    /\ \/ pc = "final"
       \/ pc = "refine" /\ todo = {}
    /\ intermediate_pts' = Flatten(dictionary_intermediate_pts)
    /\ pc' = "done"
    /\ UNCHANGED <<anchors, between_anchors, total_length, lead_length,
                   free_length, length_segment, dictionary_intermediate_pts,
                   meanders, pos, calls, route_length, individual_delta_length,
                   todo, adjust_calls, routed, error>>
    /\ UNCHANGED outside

Next ==
    \/ Plan
    \/ RouteAnchor
    \/ RouteLast
    \/ Concatenate
    \/ Balance
    \/ BalanceNoMeander
    \/ RefineMeander
    \/ Finish

Spec == Init /\ [][Next]_vars

\* ======================================================================
\* Properties of RouteMixed.make
\* ======================================================================
Segments == 0..Len(anchors)
Tagged(i, t) == i \in DOMAIN between_anchors /\ between_anchors[i] = t
MethodOf(i) == select_connect_method(between_anchors, i)
CalledSegments == {calls[i][2] : i \in 1..Len(calls)}
\* the segment the routing loop is working on
CurrentSegment == IF pos <= Len(anchors) THEN anchors[pos] ELSE Len(anchors)

\* C1: every connect method invoked for a segment is the one of the segment's
\* tag (S: connect_simple, PF: connect_astar_or_simple, M: connect_meandered),
\* a segment without an entry is routed with connect_simple, a missing entry
\* never raises, and a finished make() has resolved every segment 0..N.
C1_SelectByTagDefaultStraight ==
    /\ \A i \in 1..Len(calls) :
          LET method == calls[i][1]
              seg == calls[i][2]
          IN  /\ seg \notin DOMAIN between_anchors => method = "connect_simple"
              /\ Tagged(seg, "S") => method = "connect_simple"
              /\ Tagged(seg, "PF") => method = "connect_astar_or_simple"
              /\ Tagged(seg, "M") => method = "connect_meandered"
    /\ error = "TypeError" => CurrentSegment \in DOMAIN between_anchors
    /\ pc = "done" => CalledSegments = Segments

C1_Witness ==
    /\ pc = "done"
    /\ \E i \in Segments : i \notin DOMAIN between_anchors
    /\ \E i \in Segments : Tagged(i, "PF")
    /\ \E i \in Segments : Tagged(i, "M")

\* C2: with a tag other than S, PF or M on some segment 0..N, make() fails
\* with InvalidStrategyError before any geometry is computed: no connect
\* method is ever invoked and no segment holds points.
InvalidSegmentTag ==
    \E i \in Segments :
        i \in DOMAIN between_anchors /\ between_anchors[i] \notin {"S", "PF", "M"}
C2_InvalidTagFailsBeforeGeometry ==
    InvalidSegmentTag =>
        /\ pc # "done"
        /\ error \in {"none", "InvalidStrategyError"}
        /\ calls = <<>>
        /\ dictionary_intermediate_pts = <<>>

\* C3 (as stated): the per-meander target length is
\* (total - leads - straight) / M + straight / M, M the number of meanders.
C3_BudgetSameDivisor ==
    (pc # "start" /\ AnyCountMeanders(between_anchors)) =>
        RatEq(length_segment,
              RatAdd(<<total_length - lead_length - free_length,
                       SumCountMeanders(between_anchors)>>,
                     <<free_length, SumCountMeanders(between_anchors)>>))

\* C3 (amended): the per-meander target length is
\* (total - leads - straight) / M + straight / K, M the number of 'M' tags in
\* between_anchors and K the number of entries of between_anchors.
C3_BudgetPerEntryBaseline ==
    (pc # "start" /\ AnyCountMeanders(between_anchors)) =>
        RatEq(length_segment,
              RatAdd(<<total_length - lead_length - free_length,
                       SumCountMeanders(between_anchors)>>,
                     <<free_length, LenCountMeanders(between_anchors)>>))

C3_Witness ==
    /\ pc # "start"
    /\ SumCountMeanders(between_anchors) = 2
    /\ LenCountMeanders(between_anchors) = 3
    /\ total_length = 20 /\ lead_length = 4 /\ free_length = 6
    /\ length_segment = <<42, 6>>

\* C4: a make() that finishes a route with meanders has handed a correction
\* to adjust_length for every meander, and once every meander has been handed
\* its correction the corrections sum to total_length minus the length
\* measured before the refinement, so the final length is total_length when
\* every call realises its correction.
RECURSIVE SumDelta(_)
SumDelta(s) == IF s = <<>> THEN <<0, 1>> ELSE RatAdd(Head(s).delta, SumDelta(Tail(s)))
\* the route length once every adjust_length call has realised its correction
RealisedLength == RatAdd(<<route_length, 1>>, SumDelta(adjust_calls))
HandedSegments == {adjust_calls[i].m : i \in 1..Len(adjust_calls)}
C4_CorrectionsSumToShortfall ==
    /\ (pc = "done" /\ meanders # {}) => HandedSegments = meanders
    /\ (meanders # {} /\ HandedSegments = meanders) =>
          /\ RatEq(SumDelta(adjust_calls), <<total_length - route_length, 1>>)
          /\ RatEq(RealisedLength, <<total_length, 1>>)

C4_Witness ==
    /\ pc = "done"
    /\ Cardinality(meanders) = 2
    /\ Len(adjust_calls) = 2
    /\ route_length # total_length

\* C5: with no segment 0..N tagged M, make() does no balancing:
\* _length_segment is None, adjust_length is never called, the final points
\* are the concatenation of the segments as first routed, and the balancing
\* raises nothing.
NoSegmentTaggedM == \A i \in Segments : ~Tagged(i, "M")
C5_NoMeanderNoBalancing ==
    NoSegmentTaggedM =>
        /\ length_segment = NoneRat
        /\ adjust_calls = <<>>
        /\ pc = "done" => intermediate_pts = Flatten(routed)
        /\ error \notin {"ZeroDivisionError", "KeyError"}

\* C6: the refinement is a single pass: adjust_length is invoked at most once
\* per meander, exactly once for each in a finished make(), and every
\* correction is the one derived from the pre-refinement length.
AdjustedSegments == {adjust_calls[i].m : i \in 1..Len(adjust_calls)}
C6_SinglePassRefinement ==
    /\ \A i, j \in 1..Len(adjust_calls) :
          adjust_calls[i].m = adjust_calls[j].m => i = j
    /\ AdjustedSegments \subseteq meanders
    /\ pc = "done" => AdjustedSegments = (IF AnyCountMeanders(between_anchors)
                                          THEN meanders ELSE {})
    /\ \A i \in 1..Len(adjust_calls) :
          adjust_calls[i].delta = individual_delta_length

C6_Witness ==
    /\ pc = "done"
    /\ Cardinality(meanders) = 2
    /\ AdjustedSegments = meanders
    /\ Len(adjust_calls) = 2

\* C7: every meander is handed the same correction,
\* (total_length - current route length) / number of meanders, whatever its
\* index or its own length.
C7_EvenCorrection ==
    \A i \in 1..Len(adjust_calls) :
        /\ RatEq(adjust_calls[i].delta,
                 <<total_length - route_length, Cardinality(meanders)>>)
        /\ \A j \in 1..Len(adjust_calls) :
              RatEq(adjust_calls[i].delta, adjust_calls[j].delta)

C7_Witness ==
    /\ Len(adjust_calls) = 2
    /\ adjust_calls[1].m # adjust_calls[2].m
    /\ Len(DictGet(routed, adjust_calls[1].m)) # Len(DictGet(routed, adjust_calls[2].m))

\* C8: the refinement pass leaves the points of every segment that was not
\* routed with the meander strategy (S, PF or untagged) as they were before
\* the pass.
C8_RefinementTouchesMeandersOnly ==
    routed # <<>> =>
        /\ Len(dictionary_intermediate_pts) = Len(routed)
        /\ \A i \in 1..Len(routed) :
              /\ dictionary_intermediate_pts[i].key = routed[i].key
              /\ routed[i].key \notin meanders =>
                    dictionary_intermediate_pts[i].pts = routed[i].pts

C8_Witness ==
    /\ pc = "done"
    /\ \E i \in 1..Len(routed) :
          /\ routed[i].key \in meanders
          /\ dictionary_intermediate_pts[i].pts # routed[i].pts
    /\ \E i \in 1..Len(routed) :
          /\ Tagged(routed[i].key, "PF")
          /\ Len(routed[i].pts) > 1
    /\ \E i \in 1..Len(routed) : routed[i].key \notin DOMAIN between_anchors

\* Concatenation of the segments' points, the segments taken in the order keys.
RECURSIVE FlattenInOrder(_, _)
FlattenInOrder(d, keys) ==
    IF keys = <<>> THEN <<>>
    ELSE (IF DictHas(d, Head(keys)) THEN DictGet(d, Head(keys)) ELSE <<>>)
             \o FlattenInOrder(d, Tail(keys))
IndexOrder == [i \in 1..(Len(anchors) + 1) |-> i - 1]
InsertionOrder == Append(anchors, Len(anchors))

Occurrences(s, p) == Cardinality({i \in 1..Len(s) : s[i] = p})
AllStraight == \A i \in Segments : MethodOf(i) = "connect_simple"
C10_WitnessAllStraight ==
    /\ pc = "done"
    /\ Len(anchors) = 2
    /\ AllStraight
    /\ intermediate_pts = <<Anchor(0), Anchor(1)>>

\* ------------------------------------------------------------------ C14
\* C14: no step of make() changes the anchors mapping or between_anchors:
\* they hold the same keys and values when make() returns or raises, for
\* every assignment of strategies.
C14_OptionsUntouched ==
    [][anchors' = anchors /\ between_anchors' = between_anchors]_vars

\* make() has ended after looking up a segment that has no tag and after
\* reading anchors in the refinement loop
C14_Witness ==
    /\ pc \in {"done", "error"}
    /\ \E i \in CalledSegments : i \notin DOMAIN between_anchors
    /\ adjust_calls # <<>>

RefinedFrom(seg) ==
    adjust_length(SubSeq(seg.pts, 1, Len(seg.pts) - 1)) \o <<Anchor(seg.key)>>

C26_NeverDividesByZero ==
    /\ error # "ZeroDivisionError"
    /\ pc \in {"balance", "refine"} => Cardinality(meanders) >= 1
    /\ (pc # "start" /\ AnyCountMeanders(between_anchors)) =>
          SumCountMeanders(between_anchors) >= 1
          /\ LenCountMeanders(between_anchors) >= 1

\* ------------------------------------------------------------------ C27
\* C27: with any tags on the segments 0..N, 'M' on the last segment N
\* included, make() ends without an error, and the refined last segment is
\* made of its own meander points only: no anchor is looked up at index N,
\* no anchor coordinate is appended to it, none of its points is dropped.
C27_MeanderOnLastSegment ==
    (/\ DOMAIN between_anchors \subseteq Segments
     /\ \A k \in DOMAIN between_anchors : between_anchors[k] \in {"S", "PF", "M"}
     /\ Tagged(Len(anchors), "M")) =>
        /\ error = "none"
        /\ Len(anchors) \in AdjustedSegments =>
              DictGet(dictionary_intermediate_pts, Len(anchors)) =
                  adjust_length(DictGet(routed, Len(anchors)))

\* ------------------------------------------------------------------ C16
\* a route with a path-finder segment and no tag other than S and PF
PathFinderRoute ==
    /\ \E i \in Segments : Tagged(i, "PF")
    /\ \A k \in DOMAIN between_anchors : between_anchors[k] \in {"S", "PF"}

\* C16: routing a segment tagged PF never raises: when the search finds no
\* path the segment falls back to the straight line, and make() completes
\* with every segment that ends on an anchor closed by that anchor.
C16_PathFinderNeverRaises ==
    PathFinderRoute =>
        /\ error = "none"
        /\ pc = "done" =>
              \A k \in AnchorKeys :
                 /\ DictHas(dictionary_intermediate_pts, k)
                 /\ LET pts == DictGet(dictionary_intermediate_pts, k)
                    IN  pts # <<>> /\ pts[Len(pts)] = Anchor(k)

\* ------------------------------------------------------------------ C15
\* A second make() on the same object.  The first call routes one anchor
\* with a meander; the caller then changes the options and calls make()
\* again.  self._length_segment and self.intermediate_pts are the fields
\* that outlive a call, the locals of the first call are gone.
InitAgain ==
    /\ Init
    /\ anchors = <<0>>
    /\ between_anchors = [k \in {0} |-> "M"]

MakeAgain ==
    /\ invocation = 1
    /\ pc \in {"done", "error"}
    /\ invocation' = 2
    /\ pc' = "start"
    /\ \E n \in 0..MaxAnchors :
          /\ anchors' \in AnchorOrders(n)
          /\ between_anchors' \in StrategyMaps(n)
    /\ total_length' \in TotalLengths
    /\ lead_length' \in LeadLengths
    /\ free_length' \in FreeLengths
    /\ dictionary_intermediate_pts' = <<>>
    /\ meanders' = {}
    /\ pos' = 1
    /\ calls' = <<>>
    /\ route_length' = 0
    /\ individual_delta_length' = NoneRat
    /\ todo' = {}
    /\ adjust_calls' = <<>>
    /\ routed' = <<>>
    /\ error' = "none"
    /\ UNCHANGED <<length_segment, intermediate_pts, collinearVars, treeVars,
                   boundsVars>>

NextAgain ==
    \/ Next
    \/ MakeAgain

SpecAgain == InitAgain /\ [][NextAgain]_vars

\* the points a call with the current options can produce
OwnPoint(p) ==
    IF IsAnchor(p) THEN p[2] \in AnchorKeys ELSE p[2] \in CalledSegments

\* C15: a make() call starts from fresh planning state whatever an earlier
\* call left behind: once it has planned, _length_segment is the budget of
\* the current options (None when they hold no meander), intermediate_pts
\* is empty until the current segments are concatenated, and the final
\* point list is made of the points of the current call's segments only.
C15_NoStateCarriedOver ==
    (invocation = 2 /\ pc # "start") =>
        /\ ~AnyCountMeanders(between_anchors) => length_segment = NoneRat
        /\ AnyCountMeanders(between_anchors) =>
              RatEq(length_segment,
                    RatAdd(<<total_length - lead_length - free_length,
                             SumCountMeanders(between_anchors)>>,
                           <<free_length, LenCountMeanders(between_anchors)>>))
        /\ pc = "route" => intermediate_pts = <<>>
        /\ \A i \in 1..Len(intermediate_pts) : OwnPoint(intermediate_pts[i])
        /\ pc = "done" =>
              intermediate_pts =
                  FlattenInOrder(dictionary_intermediate_pts, InsertionOrder)

\* the second call, without meanders and without anchors, has completed
\* on an object whose first call routed a meander
C15_Witness ==
    /\ invocation = 2
    /\ pc = "done"
    /\ ~AnyCountMeanders(between_anchors)
    /\ anchors = <<>>

\* =================================================== draw/utility.py
\* remove_co_linear_points, applied to point lists on a small integer grid.
\* With y in {0, 1} two distinct parallel vectors of the grid lie along the
\* x axis, where unit_vector and the dot product are exact in floating point.
MaxCoord == 2
MaxPoints == 4
Ys == {0, 1}
Coords == {<<x, y>> : x \in 0..MaxCoord, y \in Ys}
PointLists == UNION {[1..n -> Coords] : n \in 0..MaxPoints}

Sub(a, b) == <<a[1] - b[1], a[2] - b[2]>>
Dot(a, b) == a[1] * b[1] + a[2] * b[2]
Cross(a, b) == a[1] * b[2] - a[2] * b[1]
NormIsZero(v) == v[1] = 0 /\ v[2] = 0

\* norm(v1 - v2) < 100 eps: on integers, v1 = v2
same_vectors(v1, v2) == NormIsZero(Sub(v1, v2))

\* vec_angle(v1, v2) == 0.  unit_vector hands a zero vector back unchanged,
\* so the dot product with it is 0 and the angle is pi/2.
vec_angle_is_zero(v1, v2) ==
    /\ ~NormIsZero(v1)
    /\ ~NormIsZero(v2)
    /\ Cross(v1, v2) = 0
    /\ Dot(v1, v2) > 0

\* np.delete(pts, remove_idx, axis=0)
np_delete(pts, remove_idx) ==
    LET F[i \in 0..Len(pts)] ==
            IF i = 0 THEN <<>>
            ELSE IF i \in remove_idx THEN F[i - 1]
            ELSE Append(F[i - 1], pts[i])
    IN  F[Len(pts)]

\* first loop: every triple is read from the list as it was passed in
CollinearIdx(pts) ==
    {i - 1 : i \in {j \in 3..Len(pts) :
        LET v1 == Sub(pts[j - 2], pts[j - 1])
            v2 == Sub(pts[j - 1], pts[j])
        IN  same_vectors(v1, v2) \/ vec_angle_is_zero(v1, v2)}}

\* second loop: the later point of two equal neighbours
DuplicateIdx(pts) ==
    {i \in 2..Len(pts) : NormIsZero(Sub(pts[i], pts[i - 1]))}

\* remove_co_linear_points without its second loop
remove_co_linear_points_first_loop(pts) == np_delete(pts, CollinearIdx(pts))

remove_co_linear_points(pts) ==
    LET kept == np_delete(pts, CollinearIdx(pts))
    IN  np_delete(kept, DuplicateIdx(kept))

\* make() is not running
MakeIdle ==
    /\ pc = "idle"
    /\ anchors = <<>>
    /\ between_anchors = <<>>
    /\ total_length = 0
    /\ lead_length = 0
    /\ free_length = 0
    /\ length_segment = NoneRat
    /\ dictionary_intermediate_pts = <<>>
    /\ intermediate_pts = <<>>
    /\ meanders = {}
    /\ pos = 1
    /\ calls = <<>>
    /\ route_length = 0
    /\ individual_delta_length = NoneRat
    /\ todo = {}
    /\ adjust_calls = <<>>
    /\ routed = <<>>
    /\ error = "none"
    /\ invocation = 0

InitCollinear ==
    /\ points \in PointLists
    /\ once = <<>>
    /\ twice = <<>>
    /\ cl_pc = "input"
    /\ MakeIdle
    /\ GuiIdle
    /\ BoundsIdle

RemoveOnce ==
    /\ cl_pc = "input"
    /\ once' = remove_co_linear_points(points)
    /\ cl_pc' = "once"
    /\ UNCHANGED <<points, twice, makeVars, invocation, treeVars, boundsVars>>

RemoveAgain ==
    /\ cl_pc = "once"
    /\ twice' = remove_co_linear_points(once)
    /\ cl_pc' = "twice"
    /\ UNCHANGED <<points, once, makeVars, invocation, treeVars, boundsVars>>

NextCollinear ==
    \/ RemoveOnce
    \/ RemoveAgain

SpecCollinear == InitCollinear /\ [][NextCollinear]_vars

\* ------------------------------------------------------------------ C11
\* C11: remove_co_linear_points is idempotent: applying it to its own
\* output gives that output back, for every point list, lists with
\* repeated consecutive points included.
C11_Idempotent == cl_pc = "twice" => twice = once

\* ------------------------------------------------------------------ C12
\* the angle from u to v is exactly zero
EquallyDirected(u, v) ==
    /\ ~NormIsZero(u)
    /\ ~NormIsZero(v)
    /\ Cross(u, v) = 0
    /\ Dot(u, v) > 0

StraightTriples(pts) ==
    {i \in 3..Len(pts) :
        EquallyDirected(Sub(pts[i - 1], pts[i - 2]), Sub(pts[i], pts[i - 1]))}

\* C12: the output of remove_co_linear_points has no three consecutive
\* points p, q, r with q - p and r - q parallel and equally directed.
C12_OutputMinimal == cl_pc # "input" => StraightTriples(once) = {}

\* ------------------------------------------------------------------ C13
DistinctPoints(pts) == {pts[i] : i \in 1..Len(pts)}

\* C13: a point list is never returned with fewer than 2 distinct points;
\* the degenerate case ends in DegenerateRouteError instead.
C13_NeverDegenerate ==
    cl_pc # "input" =>
        \/ Cardinality(DistinctPoints(once)) >= 2
        \/ error = "DegenerateRouteError"

\* ------------------------------------------------------------------ C25
ConsecutiveDuplicates(pts) == {i \in 2..Len(pts) : pts[i] = pts[i - 1]}

\* C25: the output of remove_co_linear_points, for every point list, has
\* no two consecutive identical points.
C25_NoConsecutiveDuplicates ==
    /\ cl_pc # "input" => ConsecutiveDuplicates(once) = {}
    /\ cl_pc = "twice" => ConsecutiveDuplicates(twice) = {}

\* a list with a repeated point came back with at least one corner
C25_Witness ==
    /\ cl_pc = "once"
    /\ ConsecutiveDuplicates(points) # {}
    /\ Len(once) >= 3

\* ======================================================================
\* draw/utility.py: get_all_component_bounds
\* A geometry is known by its class and its bounds (x_min, y_min, x_max,
\* y_max); a dict is a function from names to geometries and dicts.
Names == {"a", "b"}
Polygon(box) == [kind |-> "Polygon", bounds |-> box]
LineString(box) == [kind |-> "LineString", bounds |-> box]
Geometries ==
    {Polygon(<<0, 0, 1, 1>>), Polygon(<<1, 0, 2, 2>>), LineString(<<0, 0, 3, 0>>)}
PyMapping(items) == [kind |-> "dict", items |-> items]
MappingsOf(values) ==
    {PyMapping(f) : f \in UNION {[D -> values] : D \in SUBSET Names}}
FlatComponents == MappingsOf(Geometries)
NestedComponents == MappingsOf(Geometries \cup FlatComponents)

PySet(elems) == [kind |-> "set", elems |-> elems]
PyList(elems) == [kind |-> "list", elems |-> elems]
PyRaise(e) == [kind |-> "raise", error |-> e]
IsGeometry(v) == v.kind \in {"Polygon", "LineString"}

\* hash(v) succeeds: a set and a dict never hash, a geometry does or does
\* not with the shapely release installed
Hashable(v, hashable) ==
    /\ v.kind \notin {"set", "dict", "raise"}
    /\ IsGeometry(v) => hashable

\* get_all_geoms for a geometry or a Mapping (neither is a component or an
\* element): line 94 builds `{f(sub_obj) for name, sub_obj in obj.items()}`,
\* a set, whose elements have to hash
RECURSIVE get_all_geoms(_, _)
get_all_geoms(obj, hashable) ==
    IF IsGeometry(obj) THEN obj
    ELSE LET subs == {get_all_geoms(obj.items[name], hashable) :
                         name \in DOMAIN obj.items}
         IN  IF \E v \in subs : ~Hashable(v, hashable)
             THEN PyRaise("TypeError")
             ELSE PySet(subs)

\* flatten_all_filter; the list RES is kept as the set of its elements
RECURSIVE flatten_all_filter(_, _)
flatten_all_filter(comps, filter_obj) ==
    IF comps.kind # "dict" THEN PyRaise("AssertionError")
    ELSE PyList(UNION {
             LET obj == comps.items[name]
             IN  IF obj.kind = "dict"
                 THEN flatten_all_filter(obj, filter_obj).elems
                 ELSE IF filter_obj = "None" \/ obj.kind = filter_obj
                 THEN {obj} ELSE {}
             : name \in DOMAIN comps.items})

Least(S) == CHOOSE x \in S : \A y \in S : x <= y
Greatest(S) == CHOOSE x \in S : \A y \in S : x >= y
\* MultiPolygon(polys).bounds; the empty tuple for no polygon
MultiPolygonBounds(polys) ==
    IF polys = {} THEN <<>>
    ELSE <<Least({g.bounds[1] : g \in polys}), Least({g.bounds[2] : g \in polys}),
           Greatest({g.bounds[3] : g \in polys}),
           Greatest({g.bounds[4] : g \in polys})>>

InitBounds ==
    /\ components \in NestedComponents
    /\ geometry_hashable \in BOOLEAN
    /\ all_geoms = NoValue
    /\ bounds_ret = NoValue
    /\ gb_pc = "input"
    /\ MakeIdle
    /\ CollinearIdle
    /\ GuiIdle

notBounds == <<components, geometry_hashable, makeVars, invocation,
               collinearVars, treeVars>>

\* lines 156-158
GetAllGeoms ==
    /\ gb_pc = "input"
    /\ LET got == get_all_geoms(components, geometry_hashable)
       IN  IF got.kind = "raise"
           THEN gb_pc' = "error" /\ bounds_ret' = got /\ UNCHANGED all_geoms
           ELSE gb_pc' = "geoms" /\ all_geoms' = got /\ UNCHANGED bounds_ret
    /\ UNCHANGED notBounds

\* lines 159-163; unpacking the empty tuple into four names is a ValueError
FlattenAndBound ==
    /\ gb_pc = "geoms"
    /\ LET flat == flatten_all_filter(all_geoms, "Polygon")
       IN  IF flat.kind = "raise"
           THEN gb_pc' = "error" /\ bounds_ret' = flat
           ELSE IF MultiPolygonBounds(flat.elems) = <<>>
           THEN gb_pc' = "error" /\ bounds_ret' = PyRaise("ValueError")
           ELSE /\ gb_pc' = "done"
                /\ bounds_ret' = [kind |-> "bounds",
                                  box |-> MultiPolygonBounds(flat.elems)]
    /\ UNCHANGED <<all_geoms, notBounds>>

NextBounds ==
    \/ GetAllGeoms
    \/ FlattenAndBound

SpecBounds == InitBounds /\ [][NextBounds]_vars

\* ------------------------------------------------------------------ C21
RECURSIVE PolygonsIn(_)
PolygonsIn(obj) ==
    IF obj.kind = "Polygon" THEN {obj}
    ELSE IF obj.kind = "dict"
    THEN UNION {PolygonsIn(obj.items[name]) : name \in DOMAIN obj.items}
    ELSE {}

\* C21: get_all_component_bounds of a dict of geometries and nested dicts
\* returns the bounding box of all polygons in it: get_all_geoms returns a
\* dict for a mapping, which passes the dict assertion of
\* flatten_all_filter, and no assertion or other error ends the call.
C21_BoundsOfAllPolygons ==
    /\ bounds_ret.kind # "raise"
    /\ gb_pc = "geoms" => all_geoms.kind = "dict"
    /\ (gb_pc = "done" /\ PolygonsIn(components) # {}) =>
          bounds_ret.box = MultiPolygonBounds(PolygonsIn(components))

\* ======================================================================
\* _gui/widgets/library_new_qcomponent: the parameter tree and its window
\* ======================================================================
MaxNodes == 2
Keys == {"a", "b"}
LeafTypes == {"str", "int", "float", "bool"}
BranchTypes == {"dict", "OrderedDict", "Dict"}

\* ------------------------------------------------------- Python values
\* A str, int, float or bool is its type name with the text str() gives
\* for it; a dictionary is its type name with its items in insertion order.
PyLeaf(t, text) == [type |-> t, text |-> text, items |-> <<>>]
PyDict(t, items) == [type |-> t, text |-> "", items |-> items]
IsDict(v) == v.type \in BranchTypes
PyKeys(items) == {items[i].key : i \in 1..Len(items)}
PyGet(items, k) == items[CHOOSE i \in 1..Len(items) : items[i].key = k].val
\* d[k] = v
PyAssign(items, k, v) ==
    IF k \in PyKeys(items)
    THEN [i \in 1..Len(items) |->
             IF items[i].key = k THEN [key |-> k, val |-> v] ELSE items[i]]
    ELSE Append(items, [key |-> k, val |-> v])

LeafVals ==
    {PyLeaf("str", "1"), PyLeaf("int", "1"), PyLeaf("float", "0.5"),
     PyLeaf("bool", "False")}

\* every item list that takes exactly n keys, nested ones counted
RECURSIVE ItemsExact(_)
RECURSIVE ValsExact(_)
ItemsExact(n) ==
    IF n = 0 THEN {<<>>}
    ELSE UNION {
           {<<[key |-> km[1], val |-> v]>> \o rest :
               v \in ValsExact(km[2]),
               rest \in {r \in ItemsExact(n - km[2]) : km[1] \notin PyKeys(r)}}
           : km \in Keys \X (1..n)}
ValsExact(m) ==
    (IF m = 1 THEN LeafVals ELSE {})
        \cup {PyDict(t, i) : t \in BranchTypes, i \in ItemsExact(m - 1)}
DataDicts == {PyDict("dict", i) : i \in UNION {ItemsExact(n) : n \in 0..MaxNodes}}

\* ------------------------------------------------------------ the nodes
\* LeafNode.__init__: the type name is kept, the value becomes its text
LeafNode(name, value) ==
    [kind |-> "leaf", name |-> name, type |-> value.type,
     value |-> value.text, children |-> <<>>]
BranchNode(name, cur_type) ==
    [kind |-> "branch", name |-> name, type |-> cur_type,
     value |-> "", children |-> <<>>]

\* row (from 1) of the first child called key, 0 for None
childWithKey(node, key) ==
    IF \E i \in 1..Len(node.children) : node.children[i].name = key
    THEN CHOOSE i \in 1..Len(node.children) :
            /\ node.children[i].name = key
            /\ \A j \in 1..(i - 1) : node.children[j].name # key
    ELSE 0
insertChild(node, child) == [node EXCEPT !.children = Append(@, child)]

\* ------------------------------------------------------------ init_load
RECURSIVE getPaths(_, _)
getPaths(items, curpath) ==
    IF items = <<>> THEN <<>>
    ELSE LET k == Head(items).key
             v == Head(items).val
         IN  (IF IsDict(v) THEN getPaths(v.items, Append(curpath, k))
              ELSE <<[keys |-> Append(curpath, k), value |-> v]>>)
                 \o getPaths(Tail(items), curpath)

RECURSIVE get_nested_dict_item(_, _)
get_nested_dict_item(dic, key_list) ==
    IF key_list = <<>> THEN dic
    ELSE get_nested_dict_item(PyGet(dic.items, Head(key_list)), Tail(key_list))

\* path.index(key): the first position that holds key
PathIndex(keys, key) ==
    CHOOSE i \in 1..Len(keys) :
        keys[i] = key /\ \A j \in 1..(i - 1) : keys[j] # key

\* `not branch`: None, or a BranchNode whose __len__ is 0
NotBranch(node, row) ==
    \/ row = 0
    \/ node.children[row].kind = "branch" /\ node.children[row].children = <<>>

\* one iteration of `for path in self.paths`, from the node `node` down
RECURSIVE LoadPath(_, _, _, _)
LoadPath(node, keys, path, d) ==
    IF Len(keys) = 1
    THEN insertChild(node, LeafNode(keys[1], path.value))
    ELSE LET key == Head(keys)
             row == childWithKey(node, key)
         IN  IF NotBranch(node, row)
             THEN LET dict_type ==
                          get_nested_dict_item(
                              d, SubSeq(path.keys, 1, PathIndex(path.keys, key))).type
                      branch == BranchNode(key, dict_type)
                  IN  insertChild(node, LoadPath(branch, Tail(keys), path, d))
             ELSE [node EXCEPT !.children[row] = LoadPath(@, Tail(keys), path, d)]

RECURSIVE LoadPaths(_, _, _)
LoadPaths(r, paths, d) ==
    IF paths = <<>> THEN r
    ELSE LoadPaths(LoadPath(r, Head(paths).keys, Head(paths), d), Tail(paths), d)

init_load(r, d) ==
    IF Len(d.items) < 1 THEN r
    ELSE LoadPaths([r EXCEPT !.children = <<>>], getPaths(d.items, <<>>), d)

\* ------------------------------------------------------- get_real_value
IntTexts == {"0", "1"}
FloatTexts == {"0.5", "1.0"}
Lower(text) ==
    IF text = "True" THEN "true" ELSE IF text = "False" THEN "false" ELSE text
\* s in "true"
InTrue(s) ==
    s \in {"", "t", "r", "u", "e", "tr", "ru", "ue", "tru", "rue", "true"}

\* cur_type(self.value) raises ValueError
ParseRaises(node) ==
    \/ node.type = "int" /\ node.value \notin IntTexts
    \/ node.type = "float" /\ node.value \notin IntTexts \cup FloatTexts

\* bool(self.value) in place of the comparison with "true"
get_real_value_truthy(node) ==
    IF node.type = "bool"
    THEN PyLeaf("bool", IF node.value # "" THEN "True" ELSE "False")
    ELSE IF node.type = "float" /\ node.value \in IntTexts
    THEN PyLeaf("float", node.value \o ".0")
    ELSE PyLeaf(node.type, node.value)
get_real_value(node) ==
    IF node.type = "bool"
    THEN PyLeaf("bool", IF InTrue(Lower(node.value)) THEN "True" ELSE "False")
    ELSE IF node.type = "float" /\ node.value \in IntTexts
    THEN PyLeaf("float", node.value \o ".0")
    ELSE PyLeaf(node.type, node.value)

\* ------------------------------------- traverse_model_to_create_dictionary
get_empty_dictionary(node) ==
    IF node.type = "OrderedDict" THEN "OrderedDict" ELSE "dict"

\* the entry recursively_get_params stores under curNode.name
RECURSIVE ParamsOf(_)
RECURSIVE ChildParams(_, _)
ParamsOf(curNode) ==
    IF curNode.kind = "leaf" THEN get_real_value(curNode)
    ELSE PyDict(get_empty_dictionary(curNode),
                ChildParams(curNode.children, <<>>))
ChildParams(children, c_dict) ==
    IF children = <<>> THEN c_dict
    ELSE ChildParams(Tail(children),
                     PyAssign(c_dict, Head(children).name, ParamsOf(Head(children))))

RECURSIVE TraverseRaises(_)
TraverseRaises(curNode) ==
    IF curNode.kind = "leaf" THEN ParseRaises(curNode)
    ELSE \E i \in 1..Len(curNode.children) : TraverseRaises(curNode.children[i])

\* --------------------------------------------------- dict -> tree -> dict
\* TreeModelParamEntry.__init__ with the default data_dict = {}
NewModel == BranchNode("", "dict")

InitRoundTrip ==
    /\ root = NewModel
    /\ data_dict \in DataDicts
    /\ current_dict = <<>>
    /\ op = "new"
    /\ ret = "None"
    /\ emitted = {}
    /\ raised = "none"
    /\ error_pop_up = 0
    /\ closed = FALSE
    /\ MakeIdle
    /\ CollinearIdle
    /\ BoundsIdle

InitLoad ==
    /\ op = "new"
    /\ root' = init_load(root, data_dict)
    /\ emitted' = IF Len(data_dict.items) < 1 THEN {} ELSE {"modelReset"}
    /\ op' = "init_load"
    /\ UNCHANGED <<data_dict, current_dict, ret, raised, error_pop_up, closed,
                   makeVars, invocation, collinearVars, boundsVars>>

Traverse ==
    /\ op = "init_load"
    /\ IF TraverseRaises(root)
       THEN ret' = "ValueError" /\ raised' = "ValueError" /\ UNCHANGED current_dict
       ELSE ret' = "None" /\ raised' = "none" /\ current_dict' = ParamsOf(root)
    /\ emitted' = {}
    /\ op' = "traverse"
    /\ UNCHANGED <<root, data_dict, error_pop_up, closed,
                   makeVars, invocation, collinearVars, boundsVars>>

NextRoundTrip ==
    \/ InitLoad
    \/ Traverse

SpecRoundTrip == InitRoundTrip /\ [][NextRoundTrip]_vars

\* ------------------------------------------------------------------ C20
\* same keys at every level, same leaf values and leaf types
RECURSIVE PyEqual(_, _)
PyEqual(a, b) ==
    IF IsDict(a) /\ IsDict(b)
    THEN /\ PyKeys(a.items) = PyKeys(b.items)
         /\ Len(a.items) = Len(b.items)
         /\ \A k \in PyKeys(a.items) :
               PyEqual(PyGet(a.items, k), PyGet(b.items, k))
    ELSE ~IsDict(a) /\ ~IsDict(b) /\ a.type = b.type /\ a.text = b.text

\* C20 (as stated): for every nested dictionary d with str, int, float and
\* bool leaves and dict, OrderedDict or Dict sub-dictionaries, empty ones
\* included, init_load(d) followed by traverse_model_to_create_dictionary
\* leaves current_dict equal to d.
C20_RoundTrip ==
    op = "traverse" => (ret = "None" /\ PyEqual(current_dict, data_dict))

\* d without the sub-dictionaries that hold no leaf at any depth
RECURSIVE HasLeaf(_)
HasLeaf(v) ==
    ~IsDict(v) \/ \E i \in 1..Len(v.items) : HasLeaf(v.items[i].val)
RECURSIVE Prune(_)
Prune(v) ==
    IF ~IsDict(v) THEN v
    ELSE LET kept == SelectSeq(v.items, LAMBDA it : HasLeaf(it.val))
         IN  PyDict(v.type,
                    [i \in 1..Len(kept) |->
                        [key |-> kept[i].key, val |-> Prune(kept[i].val)]])

\* C20 (amended): on a new model, init_load(d) followed by the traversal
\* leaves current_dict equal to d without its sub-dictionaries that hold
\* no leaf; it equals d when every sub-dictionary of d is non-empty.
C20_RoundTripOfLeaves ==
    op = "traverse" =>
        /\ ret = "None"
        /\ PyEqual(current_dict, Prune(data_dict))
        /\ Prune(data_dict) = data_dict => PyEqual(current_dict, data_dict)

\* a dictionary with a non-empty sub-dictionary has made the round trip
C20_Witness ==
    /\ op = "traverse"
    /\ PyEqual(current_dict, data_dict)
    /\ \E i \in 1..Len(data_dict.items) :
          /\ IsDict(data_dict.items[i].val)
          /\ data_dict.items[i].val.items # <<>>

\* --------------------------------------------------- editing the tree
\* A QModelIndex is the rows leading from the root to its node; <<>> is
\* the invalid index, which nodeFromIndex resolves to the root.
RECURSIVE NodePaths(_)
NodePaths(n) ==
    UNION {{<<i>>} \cup {<<i>> \o q : q \in NodePaths(n.children[i])}
           : i \in 1..Len(n.children)}
NodeCount(n) == Cardinality(NodePaths(n))
Indexes == NodePaths(root) \cup {<<>>}

RECURSIVE nodeFromIndex(_, _)
nodeFromIndex(n, index) ==
    IF index = <<>> THEN n
    ELSE nodeFromIndex(n.children[Head(index)], Tail(index))

\* the tree with the node at index replaced by new
RECURSIVE ReplaceAt(_, _, _)
ReplaceAt(n, index, new) ==
    IF index = <<>> THEN new
    ELSE [n EXCEPT !.children[Head(index)] = ReplaceAt(@, Tail(index), new)]

\* cur_node.parent.children.remove((cur_node.name, cur_node))
RECURSIVE RemoveAt(_, _)
RemoveAt(n, index) ==
    IF Len(index) = 1
    THEN [n EXCEPT !.children =
             [i \in 1..(Len(@) - 1) |-> IF i < index[1] THEN @[i] ELSE @[i + 1]]]
    ELSE [n EXCEPT !.children[Head(index)] = RemoveAt(@, Tail(index))]

Columns == {"NAME", "VALUE", "PARSED", "TYPE"}
Roles == {"EditRole", "DisplayRole"}
\* what the views hand to the model
AddedVals == {PyLeaf("str", "x")}
EditTexts == {"1", "x"}
EditTypes == {"str"}
RECURSIVE PlainDict(_)
PlainDict(d) ==
    \A i \in 1..Len(d.items) :
        LET v == d.items[i].val
        IN  IF IsDict(v) THEN v.type = "dict" /\ PlainDict(v)
            ELSE v = PyLeaf("int", "1")
LoadedDicts == {d \in DataDicts : PlainDict(d)}

\* index(row, column, parent) starts with `assert self.root`, and a
\* BranchNode without children is falsy (__len__)
IndexAsserts(r) == r.children = <<>>

\* setData without the comparison of the old and the new value
setDataUncompared(r, index, column, value, role) ==
    LET node == nodeFromIndex(r, index)
        same == [root |-> r, ret |-> "False", emitted |-> {}, raised |-> "none"]
    IN  IF IndexAsserts(r)
        THEN [same EXCEPT !.raised = "AssertionError"]
        ELSE IF index = <<>> \/ role # "EditRole" THEN same
        ELSE IF column = "VALUE"
        THEN IF node.kind = "leaf"
             THEN [same EXCEPT !.root = ReplaceAt(r, index,
                                            [node EXCEPT !.value = value]),
                               !.ret = "True"]
             ELSE same
        ELSE IF column = "NAME"
        THEN [same EXCEPT !.root = ReplaceAt(r, index,
                                       [node EXCEPT !.name = value]),
                          !.ret = "True", !.emitted = {"modelReset"}]
        ELSE IF column = "TYPE"
        THEN [same EXCEPT !.root = ReplaceAt(r, index,
                                       [node EXCEPT !.type = value]),
                          !.ret = "True", !.emitted = {"modelReset"}]
        ELSE same

\* setData: the tree after the edit, the value returned, the signals
\* emitted and the exception its try block caught ("none" if none); the
\* handler logs the exception and returns False
setData(r, index, column, value, role) ==
    LET node == nodeFromIndex(r, index)
        same == [root |-> r, ret |-> "False", emitted |-> {}, raised |-> "none"]
    IN  IF IndexAsserts(r)
        THEN [same EXCEPT !.raised = "AssertionError"]
        ELSE IF index = <<>> \/ role # "EditRole" THEN same
        ELSE IF column = "VALUE"
        THEN IF node.kind = "leaf" /\ node.value # value
             THEN [same EXCEPT !.root = ReplaceAt(r, index,
                                            [node EXCEPT !.value = value]),
                               !.ret = "True"]
             ELSE same
        ELSE IF column = "NAME"
        THEN IF node.name = value
             THEN same
             ELSE [same EXCEPT !.root = ReplaceAt(r, index,
                                            [node EXCEPT !.name = value]),
                               !.ret = "True", !.emitted = {"modelReset"}]
        ELSE IF column = "TYPE"
        THEN [same EXCEPT !.root = ReplaceAt(r, index,
                                       [node EXCEPT !.type = value]),
                          !.ret = "True", !.emitted = {"modelReset"}]
        ELSE same

\* add_new_leaf_node: the tree afterwards and the signals emitted
add_new_leaf_node(r, cur_index, key, value) ==
    LET parent_node == nodeFromIndex(r, cur_index)
    IN  IF parent_node.kind = "leaf"
        THEN [root |-> r, emitted |-> {}]
        ELSE [root |-> ReplaceAt(r, cur_index,
                                 insertChild(parent_node, LeafNode(key, value))),
              emitted |-> {"modelReset"}]

add_new_branch_node(r, cur_index, key, fake_key, fake_value) ==
    LET parent_node == nodeFromIndex(r, cur_index)
        new_node == insertChild(BranchNode(key, "dict"),
                                LeafNode(fake_key, fake_value))
    IN  IF parent_node.kind = "leaf"
        THEN [root |-> r, emitted |-> {}]
        ELSE [root |-> ReplaceAt(r, cur_index, insertChild(parent_node, new_node)),
              emitted |-> {"modelReset"}]

\* delete_node that removes the first sibling carrying the node's name
delete_node_by_key(r, cur_index) ==
    IF cur_index = <<>>
    THEN [root |-> r, emitted |-> {}, raised |-> "Exception"]
    ELSE LET parent_index == SubSeq(cur_index, 1, Len(cur_index) - 1)
             siblings == nodeFromIndex(r, parent_index).children
             key == nodeFromIndex(r, cur_index).name
             row == CHOOSE i \in 1..Len(siblings) :
                        /\ siblings[i].name = key
                        /\ \A j \in 1..(i - 1) : siblings[j].name # key
             after == RemoveAt(r, parent_index \o <<row>>)
         IN  [root |-> after, emitted |-> {"dataChanged", "modelReset"},
              raised |-> IF IndexAsserts(after) THEN "AssertionError"
                         ELSE "none"]

\* delete_node: the tree afterwards, the signals emitted and the exception
\* that leaves it.  expand_items_in_paths, its last call, asks index(0, 0,
\* QModelIndex()) for the first row below the root.
delete_node(r, cur_index) ==
    IF cur_index = <<>>
    THEN [root |-> r, emitted |-> {}, raised |-> "Exception"]
    ELSE LET after == RemoveAt(r, cur_index)
         IN  [root |-> after, emitted |-> {"dataChanged", "modelReset"},
              raised |-> IF IndexAsserts(after) THEN "AssertionError"
                         ELSE "none"]

InitTree ==
    /\ root = NewModel
    /\ data_dict = PyDict("dict", <<>>)
    /\ current_dict = <<>>
    /\ op = "new"
    /\ ret = "None"
    /\ emitted = {}
    /\ raised = "none"
    /\ error_pop_up = 0
    /\ closed = FALSE
    /\ MakeIdle
    /\ CollinearIdle
    /\ BoundsIdle

notTree == <<data_dict, current_dict, error_pop_up, closed, makeVars,
             invocation, collinearVars, boundsVars>>

TreeInitLoad ==
    /\ \E d \in LoadedDicts :
          /\ root' = init_load(root, d)
          /\ emitted' = IF Len(d.items) < 1 THEN {} ELSE {"modelReset"}
    /\ op' = "init_load"
    /\ ret' = "None"
    /\ raised' = "none"
    /\ UNCHANGED notTree

AddNewLeafNode ==
    /\ NodeCount(root) < MaxNodes
    /\ \E cur_index \in Indexes, key \in Keys, value \in AddedVals :
          LET done == add_new_leaf_node(root, cur_index, key, value)
          IN  root' = done.root /\ emitted' = done.emitted
    /\ op' = "add_new_leaf_node"
    /\ ret' = "None"
    /\ raised' = "none"
    /\ UNCHANGED notTree

AddNewBranchNode ==
    /\ NodeCount(root) + 2 <= MaxNodes
    /\ \E cur_index \in Indexes, key \in Keys, fake_key \in Keys,
          fake_value \in AddedVals :
          LET done == add_new_branch_node(root, cur_index, key, fake_key,
                                          fake_value)
          IN  root' = done.root /\ emitted' = done.emitted
    /\ op' = "add_new_branch_node"
    /\ ret' = "None"
    /\ raised' = "none"
    /\ UNCHANGED notTree

\* one call of delete_node(cur_index)
DeleteNodeCall(cur_index) ==
    /\ LET done == delete_node(root, cur_index)
       IN  /\ root' = done.root
           /\ emitted' = done.emitted
           /\ raised' = done.raised
           /\ ret' = IF done.raised = "none" THEN "None" ELSE done.raised
    /\ op' = "delete_node"
    /\ UNCHANGED notTree

DeleteNode == \E cur_index \in Indexes : DeleteNodeCall(cur_index)

\* one call of setData(index, value, role), index lying in column
SetDataCall(index, column, value, role) ==
    /\ op' = "setData"
    /\ LET done == setData(root, index, column, value, role)
       IN  /\ root' = done.root
           /\ ret' = done.ret
           /\ emitted' = done.emitted
           /\ raised' = done.raised
    /\ UNCHANGED notTree

\* the values a cell of the column is edited to
EditValues(column) ==
    IF column = "NAME" THEN Keys
    ELSE IF column = "TYPE" THEN EditTypes ELSE EditTexts

SetData ==
    \E index \in Indexes, column \in Columns, role \in Roles :
        \E value \in EditValues(column) :
            SetDataCall(index, column, value, role)

NextTree ==
    \/ TreeInitLoad
    \/ AddNewLeafNode
    \/ AddNewBranchNode
    \/ DeleteNode
    \/ SetData

SpecTree == InitTree /\ [][NextTree]_vars

\* ------------------------------------------------------------------ C17
\* C17: whenever setData changes a node (a new leaf value, a new name or a
\* new type) and returns True it emits dataChanged for the edited index,
\* and it does not emit dataChanged when it returns False.
C17_DataChangedOnSuccess ==
    op = "setData" =>
        /\ ret = "True" => "dataChanged" \in emitted
        /\ ret = "False" => "dataChanged" \notin emitted

\* ------------------------------------------------------------------ C18
\* C18: after any sequence of init_load, add_new_leaf_node,
\* add_new_branch_node, setData and delete_node every BranchNode other
\* than the root has at least one child.
C18_NoChildlessBranch ==
    \A i \in NodePaths(root) :
        nodeFromIndex(root, i).kind = "branch" =>
            nodeFromIndex(root, i).children # <<>>

\* ------------------------------------------------------------------ C22
\* the sequence without its k-th element, the others in their order
Without(seq, k) == SubSeq(seq, 1, k - 1) \o SubSeq(seq, k + 1, Len(seq))
ParentIndex(index) == SubSeq(index, 1, Len(index) - 1)

\* the tree in which the children of the node at parent_index lost row k
\* and nothing else differs
TreeWithoutRow(r, parent_index, k) ==
    LET parent == nodeFromIndex(r, parent_index)
    IN  ReplaceAt(r, parent_index,
                  [parent EXCEPT !.children = Without(parent.children, k)])

\* C22: delete_node with an index that resolves to the root (the invalid
\* index of an empty selection) raises Exception and leaves the tree as it
\* was; with the index of any other node it removes that node and its
\* subtree from the children of its parent, every other node and the order
\* of the nodes staying as they were.
C22_DeleteNodeRemovesOnlyThatNode ==
    [][\A cur_index \in Indexes :
          DeleteNodeCall(cur_index) =>
              IF nodeFromIndex(root, cur_index) = root
              THEN raised' = "Exception" /\ root' = root
              ELSE /\ raised' # "Exception"
                   /\ root' = TreeWithoutRow(root, ParentIndex(cur_index),
                                             cur_index[Len(cur_index)])
                   /\ NodeCount(root') =
                          NodeCount(root) - 1
                          - NodeCount(nodeFromIndex(root, cur_index))]_vars

\* the second of two rows with the same name has been deleted, the first
\* one, with another value, is still there
C22_Witness ==
    /\ op = "delete_node"
    /\ raised = "none"
    /\ Len(root.children) = 1
    /\ root.children[1].kind = "leaf"
    /\ root.children[1].value = "1"

\* ------------------------------------------------------------------ C24
\* the calls setData refuses: an invalid index, a role other than EditRole,
\* a value or name equal to the old one, the VALUE cell of a BranchNode,
\* a PARSED cell
Refused(index, column, value, role) ==
    LET node == nodeFromIndex(root, index)
    IN  \/ index = <<>>
        \/ role # "EditRole"
        \/ column = "VALUE" /\ node.kind = "leaf" /\ node.value = value
        \/ column = "NAME" /\ node.name = value
        \/ column = "VALUE" /\ node.kind = "branch"
        \/ column = "PARSED"

entry_exception_reraised(inside) ==
    IF inside = "none" THEN [ret |-> "None", error_pop_up |-> 0]
    ELSE [ret |-> inside, error_pop_up |-> 1]
entry_exception_pop_up_warning(inside) ==
    IF inside = "none" THEN [ret |-> "None", error_pop_up |-> 0]
    ELSE [ret |-> "None", error_pop_up |-> 1]

\* body of instantiate_qcomponent; component_raises: qcomp_class(...) or
\* the gui refresh raises
instantiate_qcomponent(r, cur_dict, component_raises) ==
    IF TraverseRaises(r)
    THEN [raised |-> "ValueError", current_dict |-> cur_dict, closed |-> FALSE]
    ELSE IF component_raises
    THEN [raised |-> "Exception", current_dict |-> ParamsOf(r), closed |-> FALSE]
    ELSE [raised |-> "none", current_dict |-> ParamsOf(r), closed |-> TRUE]

\* a decorated method called name has run and its body ended with inside
Decorated(name, inside) ==
    /\ op' = name
    /\ raised' = inside
    /\ ret' = entry_exception_pop_up_warning(inside).ret
    /\ error_pop_up' = entry_exception_pop_up_warning(inside).error_pop_up

notWindow == <<data_dict, makeVars, invocation, collinearVars, boundsVars>>

\* what the window is driven with: the parameters of two component classes,
\* the generated key of a new row, the text typed into a value cell
WindowDicts ==
    {PyDict("dict", <<[key |-> "a", val |-> PyLeaf("int", "1")]>>),
     PyDict("dict", <<[key |-> "a", val |->
         PyDict("dict", <<[key |-> "a", val |-> PyLeaf("int", "1")]>>)]>>)}
WindowKeys == {"b"}

\* create_parameter_entry_window: the window is built, then setup_pew runs
\* generate_model_data, _setup_help and _setup_source in this order
InitWindow == InitTree

GenerateModelData ==
    /\ op = "new"
    /\ \E d \in WindowDicts, fails \in BOOLEAN :
          IF fails
          THEN /\ Decorated("generate_model_data", "Exception")
               /\ emitted' = {}
               /\ UNCHANGED root
          ELSE /\ Decorated("generate_model_data", "none")
               /\ root' = init_load(root, d)
               /\ emitted' = IF Len(d.items) < 1 THEN {} ELSE {"modelReset"}
    /\ UNCHANGED <<current_dict, closed, notWindow>>

SetupHelp ==
    /\ op = "generate_model_data"
    /\ \E fails \in BOOLEAN :
          Decorated("_setup_help", IF fails THEN "Exception" ELSE "none")
    /\ emitted' = {}
    /\ UNCHANGED <<root, current_dict, closed, notWindow>>

SetupSource ==
    /\ op = "_setup_help"
    /\ \E fails \in BOOLEAN :
          Decorated("_setup_source", IF fails THEN "Exception" ELSE "none")
    /\ emitted' = {}
    /\ UNCHANGED <<root, current_dict, closed, notWindow>>

\* the window is set up and open
Ready == op \notin {"new", "generate_model_data", "_setup_help"} /\ ~closed

AddKVRow ==
    /\ Ready
    /\ NodeCount(root) < MaxNodes
    /\ \E cur_index \in Indexes, key \in WindowKeys, value \in AddedVals :
          LET done == add_new_leaf_node(root, cur_index, key, value)
          IN  root' = done.root /\ emitted' = done.emitted
    /\ Decorated("add_k_v_row", "none")
    /\ UNCHANGED <<current_dict, closed, notWindow>>

AddKDictRow ==
    /\ Ready
    /\ NodeCount(root) + 2 <= MaxNodes
    /\ \E cur_index \in Indexes, fake_dict \in WindowKeys, fakekey \in WindowKeys,
          fakevalue \in AddedVals :
          LET done == add_new_branch_node(root, cur_index, fake_dict, fakekey,
                                          fakevalue)
          IN  root' = done.root /\ emitted' = done.emitted
    /\ Decorated("add_k_dict_row", "none")
    /\ UNCHANGED <<current_dict, closed, notWindow>>

DeleteRow ==
    /\ Ready
    /\ \E cur_index \in Indexes :
          LET done == delete_node(root, cur_index)
          IN  /\ root' = done.root
              /\ emitted' = done.emitted
              /\ Decorated("delete_row", done.raised)
    /\ UNCHANGED <<current_dict, closed, notWindow>>

\* the delegate of the tree view writes an edited cell with setData
EditCell ==
    /\ Ready
    /\ \E index \in Indexes, value \in EditTexts :
          LET done == setData(root, index, "VALUE", value, "EditRole")
          IN  /\ root' = done.root
              /\ ret' = done.ret
              /\ emitted' = done.emitted
              /\ raised' = done.raised
    /\ op' = "setData"
    /\ UNCHANGED <<current_dict, error_pop_up, closed, notWindow>>

InstantiateQComponent ==
    /\ Ready
    /\ \E component_raises \in BOOLEAN :
          LET done == instantiate_qcomponent(root, current_dict, component_raises)
          IN  /\ current_dict' = done.current_dict
              /\ closed' = done.closed
              /\ Decorated("instantiate_qcomponent", done.raised)
    /\ emitted' = {}
    /\ UNCHANGED <<root, notWindow>>

NextWindow ==
    \/ GenerateModelData
    \/ SetupHelp
    \/ SetupSource
    \/ AddKVRow
    \/ AddKDictRow
    \/ DeleteRow
    \/ EditCell
    \/ InstantiateQComponent

SpecWindow == InitWindow /\ [][NextWindow]_vars

\* ------------------------------------------------------------------ C19
DecoratedMethods ==
    {"generate_model_data", "_setup_help", "_setup_source", "add_k_v_row",
     "add_k_dict_row", "delete_row", "instantiate_qcomponent"}

\* C19: an exception raised inside a decorated ParameterEntryWindow method
\* is caught and shown in one critical message box, it never reaches the
\* caller, and a failed instantiate_qcomponent leaves the window open.
C19_ExceptionsBecomePopUps ==
    op \in DecoratedMethods =>
        /\ ret = "None"
        /\ raised # "none" => error_pop_up = 1
        /\ raised = "none" => error_pop_up = 0
        /\ (op = "instantiate_qcomponent" /\ raised # "none") => ~closed

\* instantiate_qcomponent has failed on a value that does not parse
C19_Witness ==
    /\ op = "instantiate_qcomponent"
    /\ raised = "ValueError"
    /\ error_pop_up = 1
    /\ ~closed

====
